---- MODULE Spec2Model ----
(***************************************************************************)
(* A model of the intel-spi driver (src/src/lib.rs) and of the flash       *)
(* replacement procedure built on it (src/src/main.rs).                    *)
(*                                                                         *)
(* A 32-bit register value is the set of the positions of its one bits     *)
(* (a subset of 0..31), so that bit 31 and the shifts by 24 keep their     *)
(* width.  Bytes are numbers in 0..255.                                    *)
(*                                                                         *)
(* The specifications share the variables:                                 *)
(*   SpecEnc   applies the HsfStsCtl accessors to a word;                  *)
(*   Spec      a client calls SpiRegs::len / read / erase / write, each    *)
(*             MMIO access a step, against the controller;                 *)
(*   SpecLive  is Spec with the fairness of the polling loops;             *)
(*   SpecFlash main.rs checks the size, reads the device, reconciles it    *)
(*             with the new image sector by sector and verifies, through   *)
(*             the same driver;                                            *)
(*   SpecMap   applies Mapper::map and Mapper::unmap to a host;            *)
(*   SpecDev   the life of a SpiDev: new, calls, drop.                     *)
(***************************************************************************)
EXTENDS Integers, Sequences, FiniteSets, TLC

\* ------------------------------------------------------------------ sizes

\* read()/write() cut the buffer into chunks of 64 bytes; set_count clamps at 64
ChunkSize == 64
\* a chunk is moved through FDATA four bytes at a time
DwordSize == 4
\* fdata: [Mmio<u32>; 16]
NumFdata == 16
\* erase_byte of the reconcile walk
erase_byte == 255

\* The sector of the reconcile walk and the read buffer of main.rs are 4096
\* bytes, 64 chunks of 64 bytes.  The model keeps them a whole number of
\* chunks and bounds that number.
SectorChunks == 2
\* Sectors of the device (the capacity is NumSectors sectors).
NumSectors == 2

erase_size == ChunkSize * SectorChunks
buf_size == ChunkSize * SectorChunks
FlashSize == NumSectors * erase_size

\* ------------------------------------------------------------------- bits

Min(a, b) == IF a < b THEN a ELSE b
Max(a, b) == IF a > b THEN a ELSE b
CeilDiv(a, b) == (a + b - 1) \div b

RECURSIVE Pow2(_)
Pow2(k) == IF k = 0 THEN 1 ELSE 2 * Pow2(k - 1)

P2 == [k \in 0..30 |-> Pow2(k)]

\* the one bits of a number below 2^31
Bits(n) == {b \in 0..30 : (n \div P2[b]) % 2 = 1}

RECURSIVE Value(_)
\* the number a set of bit positions below 31 stands for
Value(w) == IF w = {} THEN 0
            ELSE LET b == CHOOSE x \in w : TRUE IN P2[b] + Value(w \ {b})

\* u32 << k and u32 >> k
Shl(w, k) == {b + k : b \in w} \cap (0..31)
Shr(w, k) == {b - k : b \in {x \in w : x >= k}}

\* (x as u8) of a u32
AsU8(w) == Value(w \cap (0..7))

\* -------------------------------------------------------------- HsfStsCtl

FDONE == {0}
FCERR == {1}
H_AEL == {2}
H_SCIP == {5}
WRSDIS == {11}
PRR34_LOCKDN == {12}
FDOPSS == {13}
FDV == {14}
FLOCKDN == {15}
FGO == {16}
FCYCLE == 17..20
WET == {21}
FDBC == 24..29
FSMIE == {31}

\* every bit the bitflags type names; 3, 4, 6..10, 22, 23 and 30 are reserved
AllFlags == FDONE \cup FCERR \cup H_AEL \cup H_SCIP \cup WRSDIS \cup PRR34_LOCKDN
            \cup FDOPSS \cup FDV \cup FLOCKDN \cup FGO \cup FCYCLE \cup WET
            \cup FDBC \cup FSMIE

from_bits_truncate(w) == w \cap AllFlags

\* HsfStsCtlCycle: the opcode, already shifted to bits 20:17
CycleCode(c) == Shl(Bits(c), 17)
Read == CycleCode(0)
Rsvd == CycleCode(1)
Write == CycleCode(2)
BlockErase == CycleCode(3)
SectorErase == CycleCode(4)
ReadSfdp == CycleCode(5)
ReadJedec == CycleCode(6)
WriteStatus == CycleCode(7)
ReadStatus == CycleCode(8)
RpmcOp1 == CycleCode(9)
RpmcOp2 == CycleCode(10)
HsfStsCtlCycle == {Read, Rsvd, Write, BlockErase, SectorErase, ReadSfdp,
                   ReadJedec, WriteStatus, ReadStatus, RpmcOp1, RpmcOp2}

\* (mutant) the status bits FDONE and FCERR are cleared with the control fields
sanitize_DropStatus(self) ==
    ((((((self \ FGO) \ FCYCLE) \ WET) \ FDBC) \ FSMIE) \ FDONE) \ FCERR
\* (mutant) FSMIE is left as it was
sanitize_KeepFSMIE(self) == (((self \ FGO) \ FCYCLE) \ WET) \ FDBC
sanitize(self) == ((((self \ FGO) \ FCYCLE) \ WET) \ FDBC) \ FSMIE

cycle(self) == self \cap FCYCLE

\* (mutant) the opcode is inserted without clearing FCYCLE first
set_cycle_NoClear(self, value) == self \cup from_bits_truncate(value)
set_cycle(self, value) == (self \ FCYCLE) \cup from_bits_truncate(value)

count(self) == (Value(Shr(self \cap FDBC, 24)) + 1) % 256

saturating_sub(a, b) == IF a >= b THEN a - b ELSE 0

set_count(self, value) ==
    (self \ FDBC) \cup
    from_bits_truncate(Shl(Bits(saturating_sub(Max(value, 64), 1)), 24))

insert(self, flags) == self \cup flags
contains(self, flags) == flags \subseteq self

\* ------------------------------------------------------------- FdoSection

\* FdoSection: the section code, already shifted to bits 14:12
SectionCode(c) == Shl(Bits(c), 12)
Map == SectionCode(0)
Component == SectionCode(1)
Region == SectionCode(2)
Master == SectionCode(3)

\* (mutant) the section is left out of the word written to FDOC
FdocWord_NoSection(section, index) == Shl(Bits(index % 1024), 2)

\* fdo(): (section as u32) | (((index & 0b1111111111) as u32) << 2)
FdocWord(section, index) == section \cup Shl(Bits(index % 1024), 2)

kib == 1024
mib == 1024 * kib

\* len(): the arms of match component & 0b111, in the order of the code
LenArms == <<512 * kib, mib, 2 * mib, 4 * mib, 8 * mib, 16 * mib, 32 * mib, 64 * mib>>


\* -------------------------------------------------------------- variables

VARIABLES
    \* SpecEnc: the HsfStsCtl value under test and the accessor last applied
    word, lastop,
    \* the controller: SpiRegs.hsfsts_ctl, .faddr, .fdata, the flash array and
    \* whether a cycle started by FGO is still running
    hsfsts_ctl_reg, faddr, fdata, flash, hw_cycle,
    \* the driver call in progress: its arguments, its position, its locals
    \* (hsfsts_ctl; cnt is count), the caller's buffer and the value returned
    call, pc, hsfsts_ctl, cnt, buf, result,
    \* history: the MMIO accesses of the call in progress, every cycle the
    \* controller was told to start, and every driver call made
    trace, cycles, calls,
    \* main.rs: its position, the images data and new, the sector offset i,
    \* the device image and the number of calls made when the reconcile walk began
    mpc, len, data, new, i, flash0, calls0,
    \* the descriptor observability registers SpiRegs.fdoc and .fdod, and the
    \* flash descriptor dwords they give access to
    fdoc, fdod, descriptor,
    \* the Mapper: its page size, the mappings the host holds, the calls of
    \* map_aligned / unmap_aligned made, and the argument and the value
    \* returned of the map / unmap under test
    page_size, maps, mlog, marg, mret,
    \* SpiDev::new and drop: the MCFG table, the configuration space of the
    \* device at 00:1F.5 and the offsets read from it, the position, the
    \* locals pcie_virt and phys_opt, the field regs and the value returned
    mcfg, pcie_space, cfg_reads, dpc, pcie_virt, phys_opt, regs, dev

encVars == <<word, lastop>>
hwVars == <<hsfsts_ctl_reg, faddr, fdata, flash, hw_cycle>>
drvVars == <<call, pc, hsfsts_ctl, cnt, buf, result, trace, cycles, calls>>
mainVars == <<mpc, len, data, new, i, flash0, calls0>>
fdoVars == <<fdoc, fdod, descriptor>>
mapVars == <<page_size, maps, mlog, marg, mret>>
spiVars == <<mcfg, pcie_space, cfg_reads, dpc, pcie_virt, phys_opt, regs, dev>>
sysVars == <<fdoVars, mapVars, spiVars>>
vars == <<encVars, sysVars, hwVars, drvVars, mainVars>>

\* ------------------------------------------------------------ controller

\* Bits a write cannot change: H_SCIP, FDOPSS and FDV are read-only, WRSDIS,
\* PRR34_LOCKDN and FLOCKDN are locked
HwFixed == H_SCIP \cup FDOPSS \cup FDV \cup WRSDIS \cup PRR34_LOCKDN \cup FLOCKDN
\* FDONE, FCERR and H_AEL are cleared if one is written
HwW1C == FDONE \cup FCERR \cup H_AEL
HwRW == FGO \cup FCYCLE \cup WET \cup FDBC \cup FSMIE

\* HSFSTS_CTL after the value v is stored to it
HwStore(reg, v) ==
    (reg \cap HwFixed) \cup ((reg \cap HwW1C) \ v) \cup (v \cap HwRW)
    \cup (IF contains(v, FGO) THEN H_SCIP ELSE {})

\* The flash array and FDATA are sequences: the byte at address a is f[a + 1],
\* register FDATA[ix] is fd[ix + 1].  A byte outside the device reads erased.
FlashByte(f, a) == IF a >= 0 /\ a < Len(f) THEN f[a + 1] ELSE erase_byte
Fdata(fd, ix) == fd[ix + 1]

\* byte j (0..3) of a 32-bit word: (data >> (j * 8)) as u8
WordByte(dword, j) == AsU8(Shr(dword, j * 8))
\* a byte placed at position j of a word: (byte as u32) << (j * 8)
ByteAt(byte, j) == Shl(Bits(byte), j * 8)

ByteAnd(a, b) == Value(Bits(a) \cap Bits(b))

\* Read: "Read number of bytes in FDBC plus one" into FDATA from faddr on
HwRead(f, fd, a, n) ==
    [r \in 1..NumFdata |->
        UNION {IF DwordSize * (r - 1) + j < n
               THEN ByteAt(FlashByte(f, a + DwordSize * (r - 1) + j), j)
               ELSE fd[r] \cap (8 * j .. 8 * j + 7) : j \in 0..(DwordSize - 1)}]

\* Write: "Write number of bytes in FDBC plus one"; a program cycle can only
\* take bits from 1 to 0
HwProgram(f, fd, a, n) ==
    [x \in 1..Len(f) |->
        IF x - 1 >= a /\ x - 1 < a + n
        THEN ByteAnd(f[x], WordByte(Fdata(fd, (x - 1 - a) \div DwordSize),
                                    (x - 1 - a) % DwordSize))
        ELSE f[x]]

\* BlockErase: the sector that holds faddr goes to the erase byte
HwErase(f, a) ==
    LET base == (a \div erase_size) * erase_size IN
    [x \in 1..Len(f) |->
        IF x - 1 >= base /\ x - 1 < base + erase_size THEN erase_byte ELSE f[x]]

\* FDOD shows the descriptor dword that FDOC selects
HwFdo(desc, v) == IF v \in DOMAIN desc THEN desc[v] ELSE {}

\* how a cycle may end: the status bits the controller raises
HwOutcomes == {FDONE, FCERR, FDONE \cup FCERR, FDONE \cup H_AEL}

\* the controller finishes the cycle FGO started
HwComplete(outcome) ==
    /\ hw_cycle
    /\ LET op == cycle(hsfsts_ctl_reg)
           n == count(hsfsts_ctl_reg)
           good == ~contains(outcome, FCERR)
       IN /\ fdata' = IF good /\ op = Read
                      THEN HwRead(flash, fdata, faddr, n) ELSE fdata
          /\ flash' = IF good /\ op = Write THEN HwProgram(flash, fdata, faddr, n)
                      ELSE IF good /\ op = BlockErase THEN HwErase(flash, faddr)
                      ELSE flash
    /\ hsfsts_ctl_reg' = ((hsfsts_ctl_reg \ FGO) \ H_SCIP) \cup outcome
    /\ hw_cycle' = FALSE
    /\ UNCHANGED <<faddr, encVars, sysVars, drvVars, mainVars>>

\* another master's transaction begins or ends while the driver prepares its
\* cycle: H_SCIP rises and falls
HwOther ==
    /\ ~hw_cycle
    /\ pc \in {"wait_idle", "sanitize", "fill", "faddr", "go"}
    /\ hsfsts_ctl_reg' = IF contains(hsfsts_ctl_reg, H_SCIP)
                         THEN hsfsts_ctl_reg \ H_SCIP
                         ELSE hsfsts_ctl_reg \cup H_SCIP
    /\ UNCHANGED <<faddr, fdata, flash, hw_cycle, encVars, sysVars, drvVars, mainVars>>


\* ---------------------------------------------------------------- SpiRegs

\* (mutant) the six reserved cells after freg are left out
SpiRegsFields_NoReserved1 ==
    << <<"bfpreg", 1>>, <<"hsfsts_ctl", 1>>, <<"faddr", 1>>, <<"dlock", 1>>,
       <<"fdata", 16>>, <<"fracc", 1>>, <<"freg", 6>>,
       <<"fpr", 5>>, <<"gpr", 1>>, <<"_reserved2", 5>>, <<"sfracc", 1>>,
       <<"fdoc", 1>>, <<"fdod", 1>>, <<"_reserved3", 1>>, <<"afc", 1>>,
       <<"vscc0", 1>>, <<"vscc1", 1>>, <<"ptinx", 1>>, <<"ptdata", 1>>,
       <<"sbrs", 1>> >>

\* #[repr(C)] struct SpiRegs: its fields in order, each so many Mmio<u32>
SpiRegsFields == << <<"bfpreg", 1>>, <<"hsfsts_ctl", 1>>, <<"faddr", 1>>, <<"dlock", 1>>,
                    <<"fdata", 16>>, <<"fracc", 1>>, <<"freg", 6>>, <<"_reserved1", 6>>,
                    <<"fpr", 5>>, <<"gpr", 1>>, <<"_reserved2", 5>>, <<"sfracc", 1>>,
                    <<"fdoc", 1>>, <<"fdod", 1>>, <<"_reserved3", 1>>, <<"afc", 1>>,
                    <<"vscc0", 1>>, <<"vscc1", 1>>, <<"ptinx", 1>>, <<"ptdata", 1>>,
                    <<"sbrs", 1>> >>

RECURSIVE WordsBefore(_)
\* the Mmio<u32> that precede field k (packed, so no padding)
WordsBefore(k) == IF k <= 1 THEN 0 ELSE WordsBefore(k - 1) + SpiRegsFields[k - 1][2]

\* mem::size_of::<SpiRegs>()
size_of_SpiRegs == DwordSize * WordsBefore(Len(SpiRegsFields) + 1)

\* the byte offset of a field from the start of the struct: each Mmio<u32> is
\* a transparent 4-byte cell, so it is four times the cells before it
offset_of(field) ==
    LET k == CHOOSE x \in DOMAIN SpiRegsFields : SpiRegsFields[x][1] = field
    IN DwordSize * WordsBefore(k)

\* the field of SpiRegs behind each register the driver touches
FieldOf == [HSFSTS_CTL |-> "hsfsts_ctl", FADDR |-> "faddr", FDATA |-> "fdata",
            FDOC |-> "fdoc", FDOD |-> "fdod"]

\* the offset in the register block of an access to cell ix of a register
CellOffset(reg, ix) == offset_of(FieldOf[reg]) + DwordSize * ix


\* ---------------------------------------------------------------- driver

None == [ok |-> FALSE, err |-> "none", val |-> 0]
Ok(n) == [ok |-> TRUE, err |-> "", val |-> n]
Err(e) == [ok |-> FALSE, err |-> e, val |-> 0]

RdEv(reg, ix, v) == [acc |-> "rd", reg |-> reg, ix |-> ix, val |-> v,
                     off |-> CellOffset(reg, ix)]
WrEv(reg, ix, v) == [acc |-> "wr", reg |-> reg, ix |-> ix, val |-> v,
                     off |-> CellOffset(reg, ix)]

\* The history keeps, of each busy-poll loop, the read that leaves the loop:
\* the reads that keep it spinning are not recorded.
Record(t, ev) == Append(t, ev)

\* the chunk of buf.chunks(64) the loop is at, and its length
ChunkLen == Min(ChunkSize, Len(buf) - cnt)
Chunk == SubSeq(buf, cnt + 1, cnt + ChunkLen)

\* (mutant) the bytes of a dword packed most significant first
PackDword_BigEndian(chunk, ix) ==
    UNION {ByteAt(chunk[DwordSize * ix + j + 1], DwordSize - 1 - j) :
           j \in {x \in 0..(DwordSize - 1) : DwordSize * ix + x < Len(chunk)}}

\* data |= (*byte as u32) << (j * 8) over the bytes of dword i of the chunk
PackDword(chunk, ix) ==
    UNION {ByteAt(chunk[DwordSize * ix + j + 1], j) :
           j \in {x \in 0..(DwordSize - 1) : DwordSize * ix + x < Len(chunk)}}

CycleOf(kind) == CASE kind = "read" -> Read
                   [] kind = "write" -> Write
                   [] kind = "erase" -> BlockErase

\* entry of SpiRegs::read / erase / write: an empty buffer has no chunk
Invoke(kind, address, b) ==
    /\ call' = [kind |-> kind, address |-> address]
    /\ buf' = b
    /\ cnt' = 0
    /\ hsfsts_ctl' = {}
    /\ trace' = <<>>
    /\ calls' = Append(calls, [kind |-> kind, address |-> address, len |-> Len(b),
                                data |-> IF kind = "write" THEN b ELSE <<>>])
    /\ IF kind = "len"
       THEN pc' = "fdoc" /\ result' = None
       ELSE IF kind # "erase" /\ Len(b) = 0
            THEN pc' = "returned" /\ result' = Ok(0)
            ELSE pc' = "wait_idle" /\ result' = None
    /\ UNCHANGED cycles

\* fdo(FdoSection::Component, 0): self.fdoc.write(...)
FdoWrite ==
    /\ pc = "fdoc"
    /\ LET v == FdocWord(Component, 0) IN
       /\ fdoc' = v
       /\ fdod' = HwFdo(descriptor, v)
       /\ trace' = Record(trace, WrEv("FDOC", 0, v))
    /\ pc' = "fdod"
    /\ UNCHANGED <<call, cnt, buf, result, cycles, calls, hsfsts_ctl, descriptor,
                   hwVars, encVars, mapVars, spiVars, mainVars>>

\* Ok(match component & 0b111 { .. _ => return Err(SpiError::Register) })
len_result(component) ==
    LET code == Value(component \cap (0..2)) IN
    IF code + 1 \in DOMAIN LenArms
    THEN Ok(LenArms[code + 1]) ELSE Err("Register")

\* fdo(): self.fdod.read(); len() returns the size it stands for
FdoRead ==
    /\ pc = "fdod"
    /\ trace' = Record(trace, RdEv("FDOD", 0, fdod))
    /\ result' = len_result(fdod)
    /\ pc' = "returned"
    /\ UNCHANGED <<call, cnt, buf, cycles, calls, hsfsts_ctl,
                   hwVars, encVars, sysVars, mainVars>>

\* (mutant) the wait-idle loop leaves on its first read, busy or not
WaitIdle_NoWait ==
    /\ pc = "wait_idle"
    /\ LET v == from_bits_truncate(hsfsts_ctl_reg) IN
       /\ hsfsts_ctl' = v
       /\ trace' = Record(trace, RdEv("HSFSTS_CTL", 0, v))
       /\ pc' = "sanitize"
    /\ UNCHANGED <<call, cnt, buf, result, cycles, calls, hwVars, encVars, sysVars, mainVars>>

\* Wait for other transactions
WaitIdle ==
    /\ pc = "wait_idle"
    /\ LET v == from_bits_truncate(hsfsts_ctl_reg) IN
       /\ hsfsts_ctl' = v
       /\ trace' = IF contains(v, H_SCIP) THEN trace
                   ELSE Record(trace, RdEv("HSFSTS_CTL", 0, v))
       /\ pc' = IF contains(v, H_SCIP) THEN "wait_idle" ELSE "sanitize"
    /\ UNCHANGED <<call, cnt, buf, result, cycles, calls, hwVars, encVars, sysVars, mainVars>>

\* (mutant) erase programs a byte count as read and write do
Compose_CountAlways(s, kind, n) ==
    insert(set_count(set_cycle(s, CycleOf(kind)), n), FGO)

\* the control word the cycle is started with
Compose(s, kind, n) ==
    IF kind = "erase"
    THEN insert(set_cycle(s, BlockErase), FGO)
    ELSE insert(set_count(set_cycle(s, CycleOf(kind)), n), FGO)

\* sanitize, write back, then compose the control word in the local
Sanitize ==
    /\ pc = "sanitize"
    /\ LET s == sanitize(hsfsts_ctl) IN
       /\ hsfsts_ctl_reg' = HwStore(hsfsts_ctl_reg, s)
       /\ trace' = Record(trace, WrEv("HSFSTS_CTL", 0, s))
       /\ hsfsts_ctl' = Compose(s, call.kind, ChunkLen)
    /\ pc' = IF call.kind = "write" THEN "fill" ELSE "faddr"
    /\ UNCHANGED <<call, cnt, buf, result, cycles, calls,
                   faddr, fdata, flash, hw_cycle, encVars, sysVars, mainVars>>

RECURSIVE FillTrace(_, _, _)
FillTrace(t, chunk, ix) ==
    IF ix >= CeilDiv(Len(chunk), DwordSize) THEN t
    ELSE FillTrace(Append(t, WrEv("FDATA", ix, PackDword(chunk, ix))), chunk, ix + 1)

\* Fill data
Fill ==
    /\ pc = "fill"
    /\ fdata' = [r \in 1..NumFdata |->
                    IF r - 1 < CeilDiv(ChunkLen, DwordSize)
                    THEN PackDword(Chunk, r - 1) ELSE fdata[r]]
    /\ trace' = FillTrace(trace, Chunk, 0)
    /\ pc' = "faddr"
    /\ UNCHANGED <<call, cnt, buf, result, cycles, calls, hsfsts_ctl,
                   hsfsts_ctl_reg, faddr, flash, hw_cycle, encVars, sysVars, mainVars>>

\* (mutant) every chunk is started at the address of the first
WriteFaddr_NoOffset ==
    /\ pc = "faddr"
    /\ faddr' = call.address
    /\ trace' = Record(trace, WrEv("FADDR", 0, call.address))
    /\ pc' = "go"
    /\ UNCHANGED <<call, cnt, buf, result, cycles, calls, hsfsts_ctl,
                   hsfsts_ctl_reg, fdata, flash, hw_cycle, encVars, sysVars, mainVars>>

\* Start command: the address
WriteFaddr ==
    /\ pc = "faddr"
    /\ faddr' = call.address + cnt
    /\ trace' = Record(trace, WrEv("FADDR", 0, call.address + cnt))
    /\ pc' = "go"
    /\ UNCHANGED <<call, cnt, buf, result, cycles, calls, hsfsts_ctl,
                   hsfsts_ctl_reg, fdata, flash, hw_cycle, encVars, sysVars, mainVars>>

\* Start command: the control word, FGO set
Go ==
    /\ pc = "go"
    /\ hsfsts_ctl_reg' = HwStore(hsfsts_ctl_reg, hsfsts_ctl)
    /\ hw_cycle' = contains(hsfsts_ctl, FGO)
    /\ trace' = Record(trace, WrEv("HSFSTS_CTL", 0, hsfsts_ctl))
    /\ cycles' = Append(cycles, [op |-> cycle(hsfsts_ctl), addr |-> faddr,
                                 fdbc |-> Value(Shr(hsfsts_ctl \cap FDBC, 24)),
                                 call |-> Len(calls)])
    /\ pc' = "poll"
    /\ UNCHANGED <<call, cnt, buf, result, calls, hsfsts_ctl,
                   faddr, fdata, flash, encVars, sysVars, mainVars>>

\* (mutant) the poll loop gives up on a read that shows the cycle running
Poll_Timeout ==
    /\ pc = "poll"
    /\ LET v == from_bits_truncate(hsfsts_ctl_reg) IN
       /\ hsfsts_ctl' = v
       /\ trace' = Record(trace, RdEv("HSFSTS_CTL", 0, v))
       /\ pc' = IF contains(v, FDONE) /\ ~contains(v, FCERR)
                THEN (IF call.kind = "read" THEN "drain" ELSE "sanitize_after")
                ELSE "cycle_error"
    /\ UNCHANGED <<call, cnt, buf, result, cycles, calls, hwVars, encVars, sysVars, mainVars>>

\* Wait for command to finish
Poll ==
    /\ pc = "poll"
    /\ LET v == from_bits_truncate(hsfsts_ctl_reg) IN
       /\ hsfsts_ctl' = v
       /\ trace' = IF contains(v, FCERR) \/ contains(v, FDONE)
                   THEN Record(trace, RdEv("HSFSTS_CTL", 0, v)) ELSE trace
       /\ pc' = IF contains(v, FCERR) THEN "cycle_error"
                ELSE IF contains(v, FDONE)
                     THEN (IF call.kind = "read" THEN "drain" ELSE "sanitize_after")
                     ELSE "poll"
    /\ UNCHANGED <<call, cnt, buf, result, cycles, calls, hwVars, encVars, sysVars, mainVars>>

\* (mutant) FCERR seen: sanitize, write back and go on with the next chunk;
\* the error is returned after the last
CycleError_NextChunk ==
    /\ pc = "cycle_error"
    /\ LET s == sanitize(hsfsts_ctl)
           done == IF call.kind = "erase" THEN 0 ELSE cnt + ChunkLen
       IN /\ hsfsts_ctl' = s
          /\ hsfsts_ctl_reg' = HwStore(hsfsts_ctl_reg, s)
          /\ trace' = Record(trace, WrEv("HSFSTS_CTL", 0, s))
          /\ cnt' = done
          /\ IF call.kind # "erase" /\ done < Len(buf)
             THEN pc' = "wait_idle" /\ result' = result
             ELSE pc' = "returned" /\ result' = Err("Cycle")
    /\ UNCHANGED <<call, buf, cycles, calls,
                   faddr, fdata, flash, hw_cycle, encVars, sysVars, mainVars>>

\* (mutant) FCERR seen: return Err(SpiError::Cycle) at once
CycleError_NoSanitize ==
    /\ pc = "cycle_error"
    /\ result' = Err("Cycle")
    /\ pc' = "returned"
    /\ UNCHANGED <<call, cnt, buf, cycles, calls, trace, hsfsts_ctl, hwVars,
                   encVars, sysVars, mainVars>>

\* FCERR seen: sanitize, write back, return Err(SpiError::Cycle)
CycleError ==
    /\ pc = "cycle_error"
    /\ LET s == sanitize(hsfsts_ctl) IN
       /\ hsfsts_ctl' = s
       /\ hsfsts_ctl_reg' = HwStore(hsfsts_ctl_reg, s)
       /\ trace' = Record(trace, WrEv("HSFSTS_CTL", 0, s))
    /\ result' = Err("Cycle")
    /\ pc' = "returned"
    /\ UNCHANGED <<call, cnt, buf, cycles, calls,
                   faddr, fdata, flash, hw_cycle, encVars, sysVars, mainVars>>

RECURSIVE DrainTrace(_, _, _)
DrainTrace(t, n, ix) ==
    IF ix >= CeilDiv(n, DwordSize) THEN t
    ELSE DrainTrace(Append(t, RdEv("FDATA", ix, Fdata(fdata, ix))), n, ix + 1)

\* (mutant) the bytes of a dword unpacked most significant first
Drain_BigEndian ==
    /\ pc = "drain"
    /\ buf' = [k \in 1..Len(buf) |->
                  IF k > cnt /\ k <= cnt + ChunkLen
                  THEN WordByte(Fdata(fdata, (k - cnt - 1) \div DwordSize),
                                DwordSize - 1 - ((k - cnt - 1) % DwordSize))
                  ELSE buf[k]]
    /\ trace' = DrainTrace(trace, ChunkLen, 0)
    /\ pc' = "sanitize_after"
    /\ UNCHANGED <<call, cnt, result, cycles, calls, hsfsts_ctl, hwVars,
                   encVars, sysVars, mainVars>>

\* read: unpack fdata[i] into dword i of the chunk
Drain ==
    /\ pc = "drain"
    /\ buf' = [k \in 1..Len(buf) |->
                  IF k > cnt /\ k <= cnt + ChunkLen
                  THEN WordByte(Fdata(fdata, (k - cnt - 1) \div DwordSize),
                                (k - cnt - 1) % DwordSize)
                  ELSE buf[k]]
    /\ trace' = DrainTrace(trace, ChunkLen, 0)
    /\ pc' = "sanitize_after"
    /\ UNCHANGED <<call, cnt, result, cycles, calls, hsfsts_ctl, hwVars,
                   encVars, sysVars, mainVars>>

\* sanitize, write back, count += chunk.len(); next chunk or return Ok
SanitizeAfter ==
    /\ pc = "sanitize_after"
    /\ LET s == sanitize(hsfsts_ctl)
           done == IF call.kind = "erase" THEN 0 ELSE cnt + ChunkLen
       IN /\ hsfsts_ctl' = s
          /\ hsfsts_ctl_reg' = HwStore(hsfsts_ctl_reg, s)
          /\ trace' = Record(trace, WrEv("HSFSTS_CTL", 0, s))
          /\ cnt' = done
          /\ IF call.kind # "erase" /\ done < Len(buf)
             THEN pc' = "wait_idle" /\ result' = result
             ELSE pc' = "returned" /\ result' = Ok(done)
    /\ UNCHANGED <<call, buf, cycles, calls, faddr, fdata, flash, hw_cycle,
                   encVars, sysVars, mainVars>>

Driver == FdoWrite \/ FdoRead \/ WaitIdle \/ Sanitize \/ Fill \/ WriteFaddr \/ Go
          \/ Poll \/ CycleError \/ Drain \/ SanitizeAfter

Hardware == HwOther \/ \E outcome \in HwOutcomes : HwComplete(outcome)


\* ---------------------------------------------------------------- Mapper

\* the locals of Mapper::map and Mapper::unmap, P being self.page_size()
page(address, P) == address \div P
aligned_address(address, P) == page(address, P) * P
offset(address, P) == address - aligned_address(address, P)
\* (mutant) the pages are counted from the size alone
pages_NoOffset(address, size, P) == (size + P - 1) \div P
pages(address, size, P) == (offset(address, P) + size + P - 1) \div P
aligned_size(address, size, P) == pages(address, size, P) * P

\* (mutant) the address map_aligned returned is handed on as it is
map_NoOffset(address, size, ret) == ret

\* Ok(VirtualAddress(virtual_address.0 + offset)), or the error of map_aligned
map(address, size, ret) ==
    IF ret.ok THEN Ok(ret.val + offset(address, page_size)) ELSE ret

\* unmap returns what unmap_aligned returned
unmap(address, size, ret) == ret

\* The host keeps the pages it has mapped, each with the call that mapped it.
RegionPages(virt, phys, size, c) ==
    {[virt |-> virt + page_size * k, phys |-> phys + page_size * k, call |-> c] :
        k \in 0..((size \div page_size) - 1)}
InRegion(a, base, size) == a >= base /\ a < base + size

\* the pages at which the host places a mapping
HostPages == {16, 64}

\* LinuxMapper::map_aligned: /dev/mem cannot be opened, or mmap fails (as it
\* does for a size of zero), or the region is mapped at free pages
HostMapRets(size) ==
    {Err("failed to open /dev/mem"), Err("failed to map /dev/mem")}
    \cup {Ok(page_size * h) : h \in {x \in HostPages :
              size > 0 /\ \A m \in maps : ~InRegion(m.virt, page_size * x, size)}}

\* LinuxMapper::unmap_aligned: munmap returns 0 or fails
HostUnmapRets == {Ok(0), Err("failed to unmap /dev/mem")}

\* self.map_aligned(aligned_address, aligned_size) as map() calls it
MapAligned(address, size, ret) ==
    LET aa == aligned_address(address, page_size)
        as == aligned_size(address, size, page_size)
    IN /\ mlog' = Append(mlog, [op |-> "map_aligned", address |-> aa, size |-> as,
                                 ret |-> ret, of |-> [address |-> address, size |-> size]])
       /\ maps' = IF ret.ok THEN maps \cup RegionPages(ret.val, aa, as, Len(mlog) + 1)
                   ELSE maps

\* self.unmap_aligned(aligned_address, aligned_size) as unmap() calls it
UnmapAligned(address, size, ret) ==
    LET aa == aligned_address(address, page_size)
        as == aligned_size(address, size, page_size)
    IN /\ mlog' = Append(mlog, [op |-> "unmap_aligned", address |-> aa, size |-> as,
                                 ret |-> ret, of |-> [address |-> address, size |-> size]])
       /\ maps' = IF ret.ok THEN {m \in maps : ~InRegion(m.virt, aa, as)} ELSE maps

\* the host's choices for the map_aligned that map(address, size) makes
MapRets(address, size) == HostMapRets(aligned_size(address, size, page_size))


\* ---------------------------------------------------------------- SpiDev

\* (0x8086, 0x02A4) .. (0x8086, 0xA324), the last one listed twice
PCI_IDS == << <<32902, 676>>, <<32902, 1700>>, <<32902, 17316>>, <<32902, 20900>>,
              <<32902, 30499>>, <<32902, 31268>>, <<32902, 32291>>, <<32902, 40356>>,
              <<32902, 41124>>, <<32902, 41764>>, <<32902, 41764>> >>

RECURSIVE LittleEndian(_)
\* b0 | b1 << 8 | b2 << 16 | ..: the bytes do not overlap, so the sum
LittleEndian(bytes) ==
    IF bytes = <<>> THEN 0 ELSE Head(bytes) + 256 * LittleEndian(Tail(bytes))

\* mcfg[0x2c] | mcfg[0x2d] << 8 | .. | mcfg[0x33] << 56
pcie_base == LittleEndian([k \in 1..8 |-> mcfg[43 + k]])

pcie_bus == 0
pcie_dev == 31
pcie_func == 5
pcie_size == 4096

\* pcie_base | (pcie_bus << 20) | (pcie_dev << 15) | (pcie_func << 12)
pcie_phys == Value(Bits(pcie_base) \cup Shl(Bits(pcie_bus), 20)
                   \cup Shl(Bits(pcie_dev), 15) \cup Shl(Bits(pcie_func), 12))

\* The physical address behind a virtual one, -1 where nothing is mapped.
Translate(v) ==
    LET pg == aligned_address(v, page_size) IN
    IF \E m \in maps : m.virt = pg
    THEN (CHOOSE m \in maps : m.virt = pg).phys + offset(v, page_size)
    ELSE -1

\* pcie_space[off]: the byte of the configuration space of 00:1F.5, which the
\* MCFG table places at pcie_phys; a byte of anything else reads 0xFF
ConfigRead(off) ==
    LET a == Translate(pcie_virt + off) IN
    IF a >= pcie_phys /\ (a - pcie_phys) \in DOMAIN pcie_space
    THEN pcie_space[a - pcie_phys] ELSE 255

vendor_id == LittleEndian(<<ConfigRead(0), ConfigRead(1)>>)
product_id == LittleEndian(<<ConfigRead(2), ConfigRead(3)>>)
bar0 == LittleEndian(<<ConfigRead(16), ConfigRead(17), ConfigRead(18), ConfigRead(19)>>)

\* (mutant) a device of the vendor is taken for a known one
known_VendorOnly(vendor, product) ==
    \E k \in DOMAIN PCI_IDS : PCI_IDS[k][1] = vendor
\* for known_id in PCI_IDS.iter(): known_id.0 == vendor_id && known_id.1 == product_id
known(vendor, product) ==
    \E k \in DOMAIN PCI_IDS : PCI_IDS[k][1] = vendor /\ PCI_IDS[k][2] = product

\* let pcie_virt = mapper.map(pcie_phys, pcie_size)?
NewMapCfg(ret) ==
    /\ dpc = "new"
    /\ ret \in MapRets(pcie_phys, pcie_size)
    /\ MapAligned(pcie_phys, pcie_size, ret)
    /\ LET r == map(pcie_phys, pcie_size, ret) IN
       IF r.ok THEN pcie_virt' = r.val /\ dpc' = "probe" /\ dev' = dev
       ELSE pcie_virt' = pcie_virt /\ dpc' = "failed" /\ dev' = r
    /\ UNCHANGED <<page_size, marg, mret, mcfg, pcie_space, cfg_reads, phys_opt, regs,
                   encVars, hwVars, drvVars, mainVars, fdoVars>>

\* read vendor_id and product_id, look them up, read bar0 if they are known
NewProbe ==
    /\ dpc = "probe"
    /\ IF known(vendor_id, product_id)
       THEN /\ cfg_reads' = cfg_reads \cup {0, 1, 2, 3} \cup {16, 17, 18, 19}
            /\ phys_opt' = Ok(bar0)
       ELSE /\ cfg_reads' = cfg_reads \cup {0, 1, 2, 3}
            /\ phys_opt' = None
    /\ dpc' = "unmap_cfg"
    /\ UNCHANGED <<mcfg, pcie_space, pcie_virt, regs, dev,
                   encVars, hwVars, drvVars, mainVars, fdoVars, mapVars>>

\* (mutant) the page is unmapped only when the device is known
NewUnmapCfg_KnownOnly(ret) ==
    /\ dpc = "unmap_cfg"
    /\ IF phys_opt.ok
       THEN /\ UnmapAligned(pcie_virt, pcie_size, ret)
            /\ IF ret.ok THEN dpc' = "map_regs" /\ dev' = dev
               ELSE dpc' = "failed" /\ dev' = unmap(pcie_virt, pcie_size, ret)
       ELSE /\ dpc' = "map_regs" /\ dev' = dev
            /\ UNCHANGED <<maps, mlog>>
    /\ UNCHANGED <<page_size, marg, mret, mcfg, pcie_space, cfg_reads, pcie_virt, phys_opt,
                   regs, encVars, hwVars, drvVars, mainVars, fdoVars>>

\* mapper.unmap(pcie_virt, pcie_size)?
NewUnmapCfg(ret) ==
    /\ dpc = "unmap_cfg"
    /\ UnmapAligned(pcie_virt, pcie_size, ret)
    /\ IF ret.ok THEN dpc' = "map_regs" /\ dev' = dev
       ELSE dpc' = "failed" /\ dev' = unmap(pcie_virt, pcie_size, ret)
    /\ UNCHANGED <<page_size, marg, mret, mcfg, pcie_space, cfg_reads, pcie_virt, phys_opt,
                   regs, encVars, hwVars, drvVars, mainVars, fdoVars>>

\* None => return Err("no supported SPI device found")
NewNoDevice ==
    /\ dpc = "map_regs"
    /\ ~phys_opt.ok
    /\ dev' = Err("no supported SPI device found")
    /\ dpc' = "failed"
    /\ UNCHANGED <<mcfg, pcie_space, cfg_reads, pcie_virt, phys_opt, regs,
                   encVars, hwVars, drvVars, mainVars, fdoVars, mapVars>>

\* let virt = mapper.map(phys, mem::size_of::<SpiRegs>())?; Ok(Self { mapper, regs })
NewMapRegs(ret) ==
    /\ dpc = "map_regs"
    /\ phys_opt.ok
    /\ ret \in MapRets(phys_opt.val, size_of_SpiRegs)
    /\ MapAligned(phys_opt.val, size_of_SpiRegs, ret)
    /\ LET r == map(phys_opt.val, size_of_SpiRegs, ret) IN
       IF r.ok THEN regs' = r.val /\ dpc' = "ready" /\ dev' = Ok(r.val)
       ELSE regs' = regs /\ dpc' = "failed" /\ dev' = r
    /\ UNCHANGED <<page_size, marg, mret, mcfg, pcie_space, cfg_reads, pcie_virt, phys_opt,
                   encVars, hwVars, drvVars, mainVars, fdoVars>>

\* (mutant) drop leaves the register block mapped
Drop_NoUnmap(ret) ==
    /\ dpc = "ready"
    /\ pc \in {"idle", "returned"}
    /\ dpc' = "dropped"
    /\ UNCHANGED <<mcfg, pcie_space, cfg_reads, pcie_virt, phys_opt, regs, dev,
                   encVars, hwVars, drvVars, mainVars, fdoVars, mapVars>>

\* Drop for SpiDev: let _ = self.mapper.unmap(virt, mem::size_of::<SpiRegs>())
Drop(ret) ==
    /\ dpc = "ready"
    /\ pc \in {"idle", "returned"}
    /\ UnmapAligned(regs, size_of_SpiRegs, ret)
    /\ dpc' = "dropped"
    /\ UNCHANGED <<page_size, marg, mret, mcfg, pcie_space, cfg_reads, pcie_virt, phys_opt,
                   regs, dev, encVars, hwVars, drvVars, mainVars, fdoVars>>


\* ------------------------------------------------------- specifications

IdleEnc == word = {} /\ lastop = [op |-> "none", arg |-> 0, prev |-> {}]

IdleHw ==
    /\ hsfsts_ctl_reg = FDV \cup FLOCKDN
    /\ faddr = 0
    /\ fdata = <<>>
    /\ flash = <<>>
    /\ hw_cycle = FALSE

IdleDriver ==
    /\ call = [kind |-> "none", address |-> 0]
    /\ pc = "idle"
    /\ hsfsts_ctl = {}
    /\ cnt = 0
    /\ buf = <<>>
    /\ result = None
    /\ trace = <<>>
    /\ cycles = <<>>
    /\ calls = <<>>

\* the signature dword of the descriptor map, and a descriptor whose
\* component section begins with the dword comp
FLVALSIG == Bits(267429210)
Descriptor(comp) == [w \in {FdocWord(Map, 0), FdocWord(Component, 0)} |->
                        IF w = FdocWord(Map, 0) THEN FLVALSIG ELSE comp]

\* FDOC at its reset value selects the signature
IdleFdo(comp) ==
    /\ fdoc = {}
    /\ fdod = FLVALSIG
    /\ descriptor = Descriptor(comp)

LinuxPageSize == 4096

IdleMap ==
    /\ page_size = LinuxPageSize
    /\ maps = {}
    /\ mlog = <<>>
    /\ marg = [address |-> 0, size |-> 0]
    /\ mret = <<>>

IdleSpi ==
    /\ mcfg = <<>>
    /\ pcie_space = <<>>
    /\ cfg_reads = {}
    /\ dpc = "off"
    /\ pcie_virt = 0
    /\ phys_opt = None
    /\ regs = 0
    /\ dev = None

IdleMain ==
    /\ mpc = "off"
    /\ len = 0
    /\ data = <<>>
    /\ new = <<>>
    /\ i = 0
    /\ flash0 = <<>>
    /\ calls0 = 0

\* --- SpecEnc: one accessor applied to one HsfStsCtl value

Fdbc(n) == Shl(Bits(n), 24)

EncWords == {{}, AllFlags,
             FDONE \cup FDV \cup FLOCKDN,
             FSMIE \cup WET \cup RpmcOp2 \cup Fdbc(63),
             FGO \cup Write \cup Fdbc(2) \cup H_SCIP,
             FCERR \cup H_AEL \cup WRSDIS \cup PRR34_LOCKDN \cup FDOPSS
                \cup ReadStatus \cup Fdbc(21)}

InitEnc ==
    /\ word \in EncWords
    /\ lastop = [op |-> "none", arg |-> 0, prev |-> {}]
    /\ IdleHw /\ IdleDriver /\ IdleMain
    /\ IdleFdo({}) /\ IdleMap /\ IdleSpi

EncSanitize ==
    /\ lastop.op = "none"
    /\ word' = sanitize(word)
    /\ lastop' = [op |-> "sanitize", arg |-> 0, prev |-> word]
    /\ UNCHANGED <<hwVars, drvVars, mainVars, sysVars>>

EncSetCycle(value) ==
    /\ lastop.op = "none"
    /\ word' = set_cycle(word, value)
    /\ lastop' = [op |-> "set_cycle", arg |-> value, prev |-> word]
    /\ UNCHANGED <<hwVars, drvVars, mainVars, sysVars>>

EncSetCount(value) ==
    /\ lastop.op = "none"
    /\ word' = set_count(word, value)
    /\ lastop' = [op |-> "set_count", arg |-> value, prev |-> word]
    /\ UNCHANGED <<hwVars, drvVars, mainVars, sysVars>>

NextEnc ==
    \/ EncSanitize
    \/ \E value \in HsfStsCtlCycle : EncSetCycle(value)
    \/ \E value \in 0..255 : EncSetCount(value)

SpecEnc == InitEnc /\ [][NextEnc]_vars

\* --- SpecMap: map() of a region, then unmap() of what it returned

PageSizes == {1, 16, LinuxPageSize}
MapAddresses == {0, 5, 4095, 4096, 4097, 8190, 1036288}
MapSizes == {0, 1, 216, 4096, 4097}

InitMap ==
    /\ IdleEnc /\ IdleHw /\ IdleDriver /\ IdleMain /\ IdleFdo({}) /\ IdleSpi
    /\ page_size \in PageSizes
    /\ maps = {}
    /\ mlog = <<>>
    /\ marg \in [address : MapAddresses, size : MapSizes]
    /\ mret = <<>>

MapperMap(ret) ==
    /\ mret = <<>>
    /\ ret \in MapRets(marg.address, marg.size)
    /\ MapAligned(marg.address, marg.size, ret)
    /\ mret' = <<map(marg.address, marg.size, ret)>>
    /\ UNCHANGED <<page_size, marg, encVars, hwVars, drvVars, mainVars, fdoVars, spiVars>>

MapperUnmap(ret) ==
    /\ Len(mret) = 1 /\ mret[1].ok
    /\ UnmapAligned(mret[1].val, marg.size, ret)
    /\ mret' = Append(mret, unmap(mret[1].val, marg.size, ret))
    /\ UNCHANGED <<page_size, marg, encVars, hwVars, drvVars, mainVars, fdoVars, spiVars>>

NextMap ==
    \/ \E ret \in HostMapRets(1) : MapperMap(ret)
    \/ \E ret \in HostUnmapRets : MapperUnmap(ret)

SpecMap == InitMap /\ [][NextMap]_vars

\* --- Spec: a client makes one call of read, erase or write

\* HSFSTS_CTL as an earlier user of the controller may have left it
InitStatus == {FDV \cup FLOCKDN,
               FDV \cup FDONE \cup FSMIE \cup WET \cup ReadSfdp \cup Fdbc(7),
               FDV \cup H_SCIP \cup FCERR \cup H_AEL \cup Write \cup Fdbc(63)}

\* the first sector holds 00, 01, 02, ..., the rest of the device is erased
Ramp == [x \in 1..FlashSize |-> IF x - 1 < erase_size THEN (x - 1) % 256 ELSE erase_byte]

Addresses == {0, 32, erase_size + 3}
BufLens == {0, 1, 3, ChunkSize, ChunkSize + 1, 2 * ChunkSize + 2}
WriteBuf(n) == [k \in 1..n |-> (85 + 37 * k) % 256]
ReadBuf(n) == [k \in 1..n |-> 90]

Init ==
    /\ IdleEnc /\ IdleDriver /\ IdleMain
    /\ IdleFdo(Bits(3)) /\ IdleMap /\ IdleSpi
    /\ hsfsts_ctl_reg \in InitStatus
    /\ faddr = 0
    /\ fdata = [r \in 1..NumFdata |-> 0..31]
    /\ flash = Ramp
    /\ hw_cycle = FALSE

ClientRead(address, n) ==
    /\ pc = "idle"
    /\ Invoke("read", address, ReadBuf(n))
    /\ UNCHANGED <<hwVars, encVars, sysVars, mainVars>>

ClientWrite(address, n) ==
    /\ pc = "idle"
    /\ Invoke("write", address, WriteBuf(n))
    /\ UNCHANGED <<hwVars, encVars, sysVars, mainVars>>

ClientErase(address) ==
    /\ pc = "idle"
    /\ Invoke("erase", address, <<>>)
    /\ UNCHANGED <<hwVars, encVars, sysVars, mainVars>>

ClientLen ==
    /\ pc = "idle"
    /\ Invoke("len", 0, <<>>)
    /\ UNCHANGED <<hwVars, encVars, sysVars, mainVars>>

Client ==
    \/ ClientLen
    \/ \E address \in Addresses, n \in BufLens : ClientRead(address, n)
    \/ \E address \in Addresses, n \in BufLens : ClientWrite(address, n)
    \/ \E address \in Addresses : ClientErase(address)

Next == Client \/ Driver \/ Hardware

Spec == Init /\ [][Next]_vars

\* --- SpecLive: Spec, with what keeps a call moving

\* the transaction of another master ends: H_SCIP falls
HwIdle == HwOther /\ contains(hsfsts_ctl_reg, H_SCIP)

\* The driver runs on: each of its steps is taken when it stays possible, and
\* wait-idle, which reads the status over and over, does not miss every time
\* H_SCIP is low.  The controller lets H_SCIP fall, and ends every cycle FGO
\* started (HwComplete is its only step while hw_cycle holds).
Fairness ==
    /\ WF_vars(Driver)
    /\ SF_vars(WaitIdle)
    /\ WF_vars(HwIdle)
    /\ []<>(~hw_cycle)

SpecLive == Init /\ [][Next]_vars /\ Fairness

\* --- SpecLen: len() of a device, for the dwords FDOD may hold

\* each density code with nothing, one bit, the top bit or every bit above it
FdodValues == {Bits(c) \cup hi : c \in 0..7, hi \in {{}, {3}, {31}, {3, 12}, 3..31}}

InitLen ==
    /\ IdleEnc /\ IdleDriver /\ IdleMain /\ IdleMap /\ IdleSpi
    /\ hsfsts_ctl_reg = FDV \cup FLOCKDN
    /\ faddr = 0
    /\ fdata = [r \in 1..NumFdata |-> {}]
    /\ flash = <<>>
    /\ hw_cycle = FALSE
    /\ \E comp \in FdodValues : IdleFdo(comp)

NextLen == ClientLen \/ FdoWrite \/ FdoRead

SpecLen == InitLen /\ [][NextLen]_vars


\* --- SpecDev: SpiDev::new, calls through the device, drop

\* calls made through one SpiDev
MaxCalls == 2

\* the ECAM base the MCFG table gives: 0x60000000
McfgFor(base) == [k \in 44..51 |->
                    IF k < 48 THEN (base \div P2[8 * (k - 44)]) % 256 ELSE 0]
\* the bytes of the configuration space that new() may read
ConfigSpace(vendor, product, bar) ==
    [o \in {0, 1, 2, 3, 16, 17, 18, 19} |->
        CASE o = 0 -> vendor % 256
          [] o = 1 -> vendor \div 256
          [] o = 2 -> product % 256
          [] o = 3 -> product \div 256
          [] OTHER -> (bar \div P2[8 * (o - 16)]) % 256]

\* Comet Lake (the first entry), Cannon Lake-H (the last), an Intel device
\* that is not listed, and another vendor's device with a listed product id
DevIds == {<<32902, 676>>, <<32902, 41764>>, <<32902, 4660>>, <<4660, 676>>}
\* BAR0 0x7E010000, and 0x7E010F80 where the block runs into the next page
DevBars == {2114060288, 2114064256}
DevPageSizes == {LinuxPageSize, 4 * LinuxPageSize}

InitDev ==
    /\ IdleEnc /\ IdleDriver /\ IdleMain /\ IdleFdo(Bits(3))
    /\ hsfsts_ctl_reg = FDV \cup FLOCKDN
    /\ faddr = 0
    /\ fdata = [r \in 1..NumFdata |-> 0..31]
    /\ flash = Ramp
    /\ hw_cycle = FALSE
    /\ page_size \in DevPageSizes
    /\ maps = {}
    /\ mlog = <<>>
    /\ marg = [address |-> 0, size |-> 0]
    /\ mret = <<>>
    /\ mcfg = McfgFor(1610612736)
    /\ \E id \in DevIds, bar \in DevBars : pcie_space = ConfigSpace(id[1], id[2], bar)
    /\ cfg_reads = {}
    /\ dpc = "new"
    /\ pcie_virt = 0
    /\ phys_opt = None
    /\ regs = 0
    /\ dev = None

\* self.regs.len() / read / erase / write
DevCall(kind) ==
    /\ dpc = "ready"
    /\ pc \in {"idle", "returned"}
    /\ Len(calls) < MaxCalls
    /\ Invoke(kind, IF kind \in {"read", "write"} THEN 32 ELSE 0,
              CASE kind = "read" -> ReadBuf(3)
                [] kind = "write" -> WriteBuf(3)
                [] OTHER -> <<>>)
    /\ UNCHANGED <<hwVars, encVars, sysVars, mainVars>>

NextDev ==
    \/ \E ret \in HostMapRets(1) : NewMapCfg(ret)
    \/ NewProbe
    \/ \E ret \in HostUnmapRets : NewUnmapCfg(ret)
    \/ NewNoDevice
    \/ \E ret \in HostMapRets(1) : NewMapRegs(ret)
    \/ \E kind \in {"len", "read", "erase", "write"} : DevCall(kind)
    \/ \E ret \in HostUnmapRets : Drop(ret)
    \/ Driver
    \/ Hardware

SpecDev == InitDev /\ [][NextDev]_vars


\* --- SpecFlash: main.rs from "Check ROM size" to the end of "Verify"

\* The device and the new image are made of sectors of four kinds.
SectorByte(kind, a) ==
    CASE kind = "FF" -> erase_byte
      [] kind = "AA" -> 170
      [] kind = "ramp" -> a % 256
      [] kind = "mix" -> IF a % 3 = 0 THEN erase_byte ELSE (7 * a) % 256

\* an image repeats a short sequence of sector kinds
ImageKinds == << <<"FF">>, <<"AA", "ramp">>, <<"AA", "FF">>, <<"ramp">>,
                 <<"mix", "AA">> >>
KindAt(p, sector) == ImageKinds[p][(sector % Len(ImageKinds[p])) + 1]
ImageByte(p, a) == SectorByte(KindAt(p, a \div erase_size), a)
Images == DOMAIN ImageKinds

\* The device of the model, FlashSize bytes, stands for the smallest part len()
\* knows, 512 KiB; main.rs holds every size in that proportion.
Scaled(n) == (n \div (512 * kib)) * FlashSize

\* the first dword of the component section: a 512 KiB or a 1 MiB part
Components == {{}, Bits(1)}
\* the length of the file given: that of the device, or a sector short
NewLens == {FlashSize, FlashSize - erase_size}

InitFlash ==
    /\ IdleEnc /\ IdleDriver
    /\ hsfsts_ctl_reg \in {FDV \cup FLOCKDN,
                           FDV \cup FDONE \cup FSMIE \cup WET \cup ReadSfdp \cup Fdbc(7)}
    /\ faddr = 0
    /\ fdata = [r \in 1..NumFdata |-> 0..31]
    /\ \E p \in Images : flash = [x \in 1..FlashSize |-> ImageByte(p, x - 1)]
    /\ hw_cycle = FALSE
    /\ \E p \in Images, n \in NewLens : new = [k \in 1..n |-> ImageByte(p, k - 1)]
    /\ \E comp \in Components : IdleFdo(comp)
    /\ IdleMap /\ IdleSpi
    /\ mpc = "len"
    /\ len = 0
    /\ data = <<>>
    /\ i = 0
    /\ flash0 = <<>>
    /\ calls0 = 0

\* Check ROM size: let len = spi.len()
MainLen ==
    /\ mpc = "len"
    /\ pc = "idle"
    /\ Invoke("len", 0, <<>>)
    /\ mpc' = "len_wait"
    /\ UNCHANGED <<len, data, new, i, flash0, calls0, hwVars, encVars, sysVars>>

\* (mutant) the size of the file is not compared with that of the device
MainLenRet_NoCheck ==
    /\ mpc = "len_wait"
    /\ pc = "returned"
    /\ IF ~result.ok
       THEN len' = len /\ mpc' = "abort"
       ELSE len' = Scaled(result.val) /\ mpc' = "read"
    /\ UNCHANGED <<data, new, i, flash0, calls0, hwVars, encVars, sysVars, drvVars>>

\* .unwrap(); assert!(len == new.len(), "firmware.rom size invalid")
MainLenRet ==
    /\ mpc = "len_wait"
    /\ pc = "returned"
    /\ IF ~result.ok
       THEN len' = len /\ mpc' = "abort"
       ELSE /\ len' = Scaled(result.val)
            /\ mpc' = IF Scaled(result.val) = Len(new) THEN "read" ELSE "size_invalid"
    /\ UNCHANGED <<data, new, i, flash0, calls0, hwVars, encVars, sysVars, drvVars>>

\* let mut buf = [0; 4096]
ZeroBuf == [k \in 1..buf_size |-> 0]

\* Read current data: while data.len() < len { spi.read(data.len(), &mut buf) }
MainRead ==
    /\ mpc = "read"
    /\ pc \in {"idle", "returned"}
    /\ IF Len(data) < len
       THEN /\ Invoke("read", Len(data), ZeroBuf)
            /\ mpc' = "read_wait"
            /\ UNCHANGED <<i, flash0, calls0>>
       ELSE /\ mpc' = "reconcile"
            /\ i' = 0
            /\ flash0' = flash
            /\ calls0' = Len(calls)
            /\ UNCHANGED drvVars
    /\ UNCHANGED <<data, new, len, hwVars, encVars, sysVars>>

\* .unwrap(); data.extend_from_slice(&buf[..read])
MainReadRet ==
    /\ mpc = "read_wait"
    /\ pc = "returned"
    /\ IF result.ok
       THEN data' = data \o SubSeq(buf, 1, result.val) /\ mpc' = "read"
       ELSE data' = data /\ mpc' = "abort"
    /\ UNCHANGED <<new, len, i, flash0, calls0, hwVars, encVars, sysVars, drvVars>>

\* the sector pair of data.chunks(erase_size).zip(new.chunks(erase_size)) at i
DataChunk == SubSeq(data, i + 1, Min(i + erase_size, Len(data)))
NewChunk == SubSeq(new, i + 1, Min(i + erase_size, Len(new)))
ZipLen == Min(Len(DataChunk), Len(NewChunk))
\* (mutant) only the first byte of the sector is compared
matching_FirstByte == ZipLen = 0 \/ NewChunk[1] = DataChunk[1]
matching == \A k \in 1..ZipLen : NewChunk[k] = DataChunk[k]
\* (mutant) one erased byte is taken for an erased sector
erased_AnyByte == \E k \in 1..ZipLen : NewChunk[k] = erase_byte
erased == \A k \in 1..ZipLen : NewChunk[k] = erase_byte

\* Erase and write: the head of the loop body
MainSector ==
    /\ mpc = "reconcile"
    /\ IF i >= Len(data) \/ i >= Len(new)
       THEN /\ mpc' = "verify"
            /\ data' = <<>>
            /\ UNCHANGED <<i, drvVars>>
       ELSE IF matching
            THEN /\ i' = i + Len(DataChunk)
                 /\ UNCHANGED <<mpc, data, drvVars>>
            ELSE /\ Invoke("erase", i, <<>>)
                 /\ mpc' = "erase_wait"
                 /\ UNCHANGED <<i, data>>
    /\ UNCHANGED <<new, len, flash0, calls0, hwVars, encVars, sysVars>>

\* (mutant) the value erase returned is dropped, not unwrapped
MainEraseRet_IgnoreError ==
    /\ mpc = "erase_wait"
    /\ pc = "returned"
    /\ IF ~erased
       THEN /\ Invoke("write", i, NewChunk)
            /\ mpc' = "write_wait"
            /\ UNCHANGED i
       ELSE /\ i' = i + Len(DataChunk)
            /\ mpc' = "reconcile"
            /\ UNCHANGED drvVars
    /\ UNCHANGED <<data, new, len, flash0, calls0, hwVars, encVars, sysVars>>

\* spi.erase(i).unwrap(); if ! erased { spi.write(i, new_chunk) }
MainEraseRet ==
    /\ mpc = "erase_wait"
    /\ pc = "returned"
    /\ IF ~result.ok
       THEN mpc' = "abort" /\ UNCHANGED <<i, drvVars>>
       ELSE IF ~erased
            THEN /\ Invoke("write", i, NewChunk)
                 /\ mpc' = "write_wait"
                 /\ UNCHANGED i
            ELSE /\ i' = i + Len(DataChunk)
                 /\ mpc' = "reconcile"
                 /\ UNCHANGED drvVars
    /\ UNCHANGED <<data, new, len, flash0, calls0, hwVars, encVars, sysVars>>

\* spi.write(i, new_chunk).unwrap(); i += chunk.len()
MainWriteRet ==
    /\ mpc = "write_wait"
    /\ pc = "returned"
    /\ IF result.ok
       THEN i' = i + Len(DataChunk) /\ mpc' = "reconcile"
       ELSE i' = i /\ mpc' = "abort"
    /\ UNCHANGED <<data, new, len, flash0, calls0, hwVars, encVars, sysVars, drvVars>>

\* Verify: while data.len() < len { spi.read(address, &mut buf) }
MainVerify ==
    /\ mpc = "verify"
    /\ IF Len(data) < len
       THEN /\ Invoke("read", Len(data), ZeroBuf)
            /\ mpc' = "verify_wait"
       ELSE /\ mpc' = "done"
            /\ UNCHANGED drvVars
    /\ UNCHANGED <<data, new, len, i, flash0, calls0, hwVars, encVars, sysVars>>

\* .unwrap(); extend; assert!(data[address] == new[address]) for the new bytes
MainVerifyRet ==
    /\ mpc = "verify_wait"
    /\ pc = "returned"
    /\ IF ~result.ok
       THEN data' = data /\ mpc' = "abort"
       ELSE LET d == data \o SubSeq(buf, 1, result.val) IN
            /\ data' = d
            /\ mpc' = IF \A k \in (Len(data) + 1)..Len(d) : d[k] = new[k]
                      THEN "verify" ELSE "verification_failed"
    /\ UNCHANGED <<new, len, i, flash0, calls0, hwVars, encVars, sysVars, drvVars>>

Main == MainLen \/ MainLenRet \/ MainRead \/ MainReadRet \/ MainSector \/ MainEraseRet \/ MainWriteRet
        \/ MainVerify \/ MainVerifyRet

NextFlash == Main \/ Driver \/ Hardware

SpecFlash == InitFlash /\ [][NextFlash]_vars


\* ================================================================ claims

\* --- reading the history of the call in progress

IsCtlWr(e) == e.acc = "wr" /\ e.reg = "HSFSTS_CTL"
IsCtlRd(e) == e.acc = "rd" /\ e.reg = "HSFSTS_CTL"
IsGo(e) == IsCtlWr(e) /\ 16 \in e.val
Idx == 1..Len(trace)
GoIdx == {g \in Idx : IsGo(trace[g])}
\* the FGO write before position g, 0 if there is none
PrevGo(g) == IF \E h \in GoIdx : h < g
             THEN CHOOSE h \in GoIdx : h < g /\ \A x \in GoIdx : x < g => x <= h
             ELSE 0
CtlFields == {16} \cup (17..20) \cup {21} \cup (24..29) \cup {31}
FdbcOf(v) == Value({b - 24 : b \in v \cap (24..29)})
\* the cycles the call in progress has started
MyCycles == SelectSeq(cycles, LAMBDA c : c.call = Len(calls))
BufLen == calls[Len(calls)].len

\* the last HSFSTS_CTL access of kind acc before position g, 0 if there is none
LastCtl(acc, g) ==
    LET before == {k \in Idx : k < g /\ trace[k].acc = acc /\ trace[k].reg = "HSFSTS_CTL"}
    IN IF before = {} THEN 0 ELSE CHOOSE k \in before : \A x \in before : x <= k

\* C1: every HSFSTS_CTL write that sets FGO comes after, in this order and all
\* within its own cycle, a status read that shows H_SCIP = 0, the write of the
\* sanitized value of that read (FGO = 0) and the FADDR write of the cycle;
\* and between two FGO writes the completion of the first has been read
\* (FDONE) and its sanitize-after write issued before the second cycle's
\* status read.
C1_GoOrder ==
    \A g \in GoIdx :
        LET f == g - 1
            w == LastCtl("wr", f)
            r == LastCtl("rd", w)
            a == LastCtl("wr", r)
            c == LastCtl("rd", a)
        IN /\ PrevGo(g) < r /\ r < w /\ w < f
           /\ 5 \notin trace[r].val
           /\ 16 \notin trace[w].val
           /\ trace[w].val = trace[r].val \ CtlFields
           /\ trace[f].acc = "wr" /\ trace[f].reg = "FADDR"
           /\ trace[f].val = call.address + ChunkSize * Cardinality({h \in GoIdx : h < g})
           /\ PrevGo(g) > 0 =>
                 /\ PrevGo(g) < c /\ c < a /\ a < r
                 /\ 0 \in trace[c].val
                 /\ trace[a].val \cap CtlFields = {}

\* a write of three chunks has started its third cycle
C1_Witness ==
    /\ call.kind = "write" /\ pc = "poll"
    /\ Cardinality(GoIdx) = 3

\* the status the call read last
LastStatus ==
    LET rd == {k \in Idx : IsCtlRd(trace[k])} IN
    IF rd = {} THEN {} ELSE trace[CHOOSE k \in rd : \A x \in rd : x <= k].val

\* C2: when read, erase or write has returned after touching the controller,
\* its last access is an HSFSTS_CTL write with FGO, FCYCLE, WET, FDBC and FSMIE
\* all zero; it returns Ok only on FDONE without FCERR, and an FCERR read in
\* poll-complete always yields SpiError::Cycle.
C2_ReturnsSanitized ==
    /\ (pc = "returned" /\ call.kind # "len" /\ Len(trace) > 0) =>
          /\ IsCtlWr(trace[Len(trace)])
          /\ trace[Len(trace)].val \cap CtlFields = {}
          /\ (1 \in LastStatus) <=> (result = Err("Cycle"))
          /\ (1 \notin LastStatus) => (result.ok /\ 0 \in LastStatus)
    /\ \A k \in Idx :
          (IsCtlRd(trace[k]) /\ PrevGo(k) > 0 /\ 1 \in trace[k].val
             /\ \A x \in (PrevGo(k) + 1)..(k - 1) : ~IsCtlRd(trace[x]))
          => (pc = "cycle_error" \/ (pc = "returned" /\ result = Err("Cycle")))

\* a call has failed on a status read that showed FCERR and FDONE together
C2_Witness ==
    /\ pc = "returned" /\ result = Err("Cycle")
    /\ {0, 1} \subseteq LastStatus
    /\ Cardinality(GoIdx) = 2

\* C5 (as claimed): the control word that starts a data cycle for a chunk of
\* n bytes has FGO = 1, FCYCLE = the opcode of the operation and FDBC = n - 1.
C5_Claim ==
    (pc = "poll" /\ call.kind \in {"read", "write"}) =>
        LET v == trace[Len(trace)].val IN
        /\ IsGo(trace[Len(trace)])
        /\ v \cap (17..20) = CycleOf(call.kind)
        /\ FdbcOf(v) = ChunkLen - 1

\* C7: a read that returns Ok has driven exactly ceil(L/64) cycles, all Read,
\* the k-th at FADDR = address + 64 k, and returns Ok(L); a read of an empty
\* buffer touches no register and returns Ok(0).
C7_ReadCycles ==
    (pc = "returned" /\ call.kind = "read") =>
        /\ result.ok =>
              /\ result.val = BufLen
              /\ Len(MyCycles) = (BufLen + 63) \div 64
              /\ Cardinality(GoIdx) = (BufLen + 63) \div 64
              /\ \A k \in 1..Len(MyCycles) :
                    /\ MyCycles[k].op = {}
                    /\ MyCycles[k].addr = call.address + 64 * (k - 1)
        /\ BufLen = 0 => (result = Ok(0) /\ trace = <<>> /\ MyCycles = <<>>)

\* a read of three chunks away from address 0 has returned Ok
C7_Witness ==
    /\ pc = "returned" /\ call.kind = "read" /\ result.ok
    /\ call.address = 32 /\ Len(MyCycles) = 3

\* byte j of a 32-bit value, read off its bits 8j .. 8j+7
BitsByte(v, j) == Value({b - 8 * j : b \in v \cap ((8 * j)..(8 * j + 7))})

\* C8: in a read, every FDATA read comes after the status read that showed
\* FDONE for the chunk's cycle (and no FGO write in between); byte j of a
\* drained chunk is bits 8 (j mod 4) .. 8 (j mod 4) + 7 of the value read from
\* FDATA[j div 4]; a read that returns Ok holds the flash bytes from address
\* on, so read(0x20, 3 bytes) of the device 00, 01, 02.. gives 20, 21, 22; the
\* buffer keeps its length.
C8_ReadData ==
    call.kind = "read" =>
        /\ Len(buf) = BufLen
        /\ \A d \in Idx : trace[d].reg = "FDATA" =>
              /\ trace[d].acc = "rd"
              /\ PrevGo(d) > 0 /\ PrevGo(d) < LastCtl("rd", d)
              /\ 0 \in trace[LastCtl("rd", d)].val
              /\ LET chunk0 == 64 * (Cardinality({h \in GoIdx : h < d}) - 1)
                     n == Min(64, BufLen - chunk0)
                 IN \A j \in 0..(n - 1) :
                       (j \div 4 = trace[d].ix /\ pc \in {"sanitize_after", "returned"}
                          /\ chunk0 = IF pc = "returned" THEN chunk0 ELSE cnt)
                       => buf[chunk0 + j + 1] = BitsByte(trace[d].val, j % 4)
        /\ (pc = "returned" /\ result.ok) =>
              \A k \in 1..BufLen : buf[k] = FlashByte(flash, call.address + k - 1)
        /\ (pc = "returned" /\ result.ok /\ call.address = 32 /\ BufLen = 3
              /\ flash = Ramp) => buf = <<32, 33, 34>>

\* the 3-byte read at 0x20 has returned
C8_Witness ==
    /\ pc = "returned" /\ call.kind = "read" /\ result.ok
    /\ call.address = 32 /\ BufLen = 3 /\ buf = <<32, 33, 34>>


\* C9: in a write, when the FGO write of a chunk of n bytes has been issued,
\* FDATA[i] for every i < ceil(n/4) holds bytes 4i .. 4i+3 of the chunk, the
\* first in bits 7:0, bytes past the end of the chunk as zero, each written
\* in this cycle before the FGO write; a write that returns Ok has driven
\* exactly ceil(L/64) cycles, all Write, the k-th at FADDR = address + 64 k,
\* and returns Ok(L).
C9_WriteData ==
    call.kind = "write" =>
        /\ pc = "poll" =>
              LET g == Len(trace) IN
              /\ IsGo(trace[g])
              /\ \A ix \in 0..(((ChunkLen + 3) \div 4) - 1) :
                    /\ \A j \in 0..3 :
                          BitsByte(fdata[ix + 1], j) =
                             IF 4 * ix + j < ChunkLen THEN buf[cnt + 4 * ix + j + 1] ELSE 0
                    /\ \E d \in (PrevGo(g) + 1)..(g - 1) :
                          trace[d] = WrEv("FDATA", ix, fdata[ix + 1])
        /\ (pc = "returned" /\ result.ok) =>
              /\ result.val = BufLen
              /\ Len(MyCycles) = (BufLen + 63) \div 64
              /\ Cardinality(GoIdx) = (BufLen + 63) \div 64
              /\ \A k \in 1..Len(MyCycles) :
                    /\ MyCycles[k].op = {18}
                    /\ MyCycles[k].addr = call.address + 64 * (k - 1)

\* a write of 130 bytes has started the cycle of its last chunk, of 2 bytes
C9_Witness ==
    /\ call.kind = "write" /\ pc = "poll"
    /\ BufLen = 130 /\ cnt = 128 /\ call.address = 32

\* C10: erase(address) issues at most one HSFSTS_CTL write with FGO = 1, and
\* exactly one by the time it returns; that write has FCYCLE = 3 and FDBC = 0
\* and follows the write of FADDR = address; erase never reads or writes FDATA.
C10_EraseCycle ==
    call.kind = "erase" =>
        /\ Cardinality(GoIdx) <= 1
        /\ pc \in {"poll", "cycle_error", "sanitize_after", "returned"}
              => Cardinality(GoIdx) = 1
        /\ \A g \in GoIdx :
              /\ trace[g].val \cap (17..20) = {17, 18}
              /\ trace[g].val \cap (24..29) = {}
              /\ trace[g - 1] = WrEv("FADDR", 0, call.address)
        /\ Len(MyCycles) = Cardinality(GoIdx)
        /\ \A c \in 1..Len(MyCycles) :
              MyCycles[c].op = {17, 18} /\ MyCycles[c].addr = call.address
                 /\ MyCycles[c].fdbc = 0
        /\ \A k \in Idx : trace[k].reg # "FDATA"

\* an erase has returned Ok from a controller that held a stale byte count
C10_Witness ==
    /\ call.kind = "erase" /\ pc = "returned" /\ result.ok
    /\ call.address = erase_size + 3
    /\ Cardinality(GoIdx) = 1
    /\ trace[1].val \cap (24..29) # {}

\* C6 (as claimed): after set_count(n), n in 1..255, count() is min(n, 64).
C6_Claim ==
    (lastop.op = "set_count" /\ lastop.arg \in 1..255) =>
        count(word) = Min(lastop.arg, 64)


\* --- the flash replacement procedure

Sectors == 0..(NumSectors - 1)
SectorOf(a) == a \div erase_size
NewSector(sec) == SubSeq(new, sec * erase_size + 1, (sec + 1) * erase_size)
\* the reconcile walk has begun
Walking == flash0 # <<>>
\* the device held the new sector when the walk began
SectorSame(sec) == SubSeq(flash0, sec * erase_size + 1, (sec + 1) * erase_size) = NewSector(sec)
SectorBlank(sec) == \A k \in 1..erase_size : NewSector(sec)[k] = 255
\* the erase and write calls the walk has made at addresses in a sector
WalkCalls(sec) ==
    SelectSeq(SubSeq(calls, calls0 + 1, Len(calls)),
              LAMBDA c : c.kind # "read" /\ SectorOf(c.address) = sec)
EraseCall(sec) == [kind |-> "erase", address |-> sec * erase_size, len |-> 0, data |-> <<>>]
WriteCall(sec) == [kind |-> "write", address |-> sec * erase_size, len |-> erase_size,
                   data |-> NewSector(sec)]
Expected(sec) == IF SectorSame(sec) THEN <<>>
                 ELSE IF SectorBlank(sec) THEN <<EraseCall(sec)>>
                 ELSE <<EraseCall(sec), WriteCall(sec)>>
IsPrefix(a, b) == Len(a) <= Len(b) /\ a = SubSeq(b, 1, Len(a))
\* the loop body has run to its end for the sector
Walked(sec) == i >= (sec + 1) * erase_size

\* C3: when no driver call fails, the verify stage finds no mismatch: the
\* device holds the new image when the reconcile walk is over, and the image
\* read back is bytewise equal to new.
C3_RoundTrip ==
    /\ mpc # "verification_failed"
    /\ mpc \in {"verify", "verify_wait", "done"} =>
          flash = new
    /\ mpc = "done" => data = new

\* the procedure has finished on a device that held another image, of which
\* one sector was skipped, and a written sector had erased bytes in it
C3_Witness ==
    /\ mpc = "done" /\ data = new
    /\ SectorSame(0) /\ ~SectorSame(1) /\ ~SectorBlank(1)
    /\ \E k \in 1..erase_size : NewSector(1)[k] = 255

\* C4: in the reconcile walk, the calls made for a sector are none if the
\* device held the new sector; otherwise one erase at the sector's address,
\* followed by one write of the new sector at the same address unless the new
\* sector is all 0xFF; at any time they are a prefix of that, and all of it
\* once the loop body has finished the sector.  Every cycle started by those
\* calls lies in the sector of its call, and an erase starts one cycle.
C4_SectorCalls ==
    Walking =>
        /\ \A sec \in Sectors :
              /\ IsPrefix(WalkCalls(sec), Expected(sec))
              /\ Walked(sec) => WalkCalls(sec) = Expected(sec)
        /\ \A k \in (calls0 + 1)..Len(calls) :
              calls[k].kind # "read" =>
                 /\ SectorOf(calls[k].address) \in Sectors
                 /\ calls[k].kind = "erase" =>
                       Len(SelectSeq(cycles, LAMBDA c : c.call = k)) <= 1
        /\ \A x \in 1..Len(cycles) :
              (cycles[x].call > calls0 /\ calls[cycles[x].call].kind # "read") =>
                 /\ SectorOf(cycles[x].addr) = SectorOf(calls[cycles[x].call].address)
                 /\ ~SectorSame(SectorOf(cycles[x].addr))

\* the walk is over: it skipped sector 0 and erased sector 1 without writing
C4_Witness ==
    /\ Walking /\ mpc = "verify"
    /\ SectorSame(0) /\ ~SectorSame(1) /\ SectorBlank(1)
    /\ WalkCalls(1) = <<EraseCall(1)>> /\ WalkCalls(0) = <<>>


\* --- the accessors of HsfStsCtl

\* C12: for every HsfStsCtl value, sanitize() clears FGO (16), FCYCLE (20:17),
\* WET (21), FDBC (29:24) and FSMIE (31), leaves FDONE, FCERR, H_AEL, H_SCIP,
\* WRSDIS, PRR34_LOCKDN, FDOPSS, FDV and FLOCKDN (0, 1, 2, 5, 11..15) as they
\* were, and applied again changes nothing.
C12_SanitizeFrame ==
    lastop.op = "sanitize" =>
        /\ word \cap ({16} \cup (17..20) \cup {21} \cup (24..29) \cup {31}) = {}
        /\ \A b \in {0, 1, 2, 5, 11, 12, 13, 14, 15} : b \in word <=> b \in lastop.prev
        /\ sanitize(word) = word
        /\ sanitize(sanitize(lastop.prev)) = sanitize(lastop.prev)

\* sanitize() has been applied to the value with every flag set
C12_Witness ==
    /\ lastop.op = "sanitize"
    /\ lastop.prev = AllFlags
    /\ word = {0, 1, 2, 5, 11, 12, 13, 14, 15}

\* C13: for every HsfStsCtl value and each of the eleven opcodes 0x0 .. 0xA,
\* set_cycle(op) makes bits 20:17 the code of op, leaves every other bit as
\* it was, and cycle() then returns op.
C13_SetCycle ==
    lastop.op = "set_cycle" =>
        /\ \E c \in 0..10 : word \cap (17..20) = {b + 17 : b \in Bits(c)}
                             /\ lastop.arg = {b + 17 : b \in Bits(c)}
        /\ word \ (17..20) = lastop.prev \ (17..20)
        /\ cycle(word) = lastop.arg

\* set_cycle(ReadStatus) has been applied to a value that held Write
C13_Witness ==
    /\ lastop.op = "set_cycle"
    /\ lastop.prev \cap (17..20) = {18}
    /\ lastop.arg = {20}
    /\ word \cap (17..20) = {20}


\* --- the mapper

MapAlignedCalls == {k \in DOMAIN mlog : mlog[k].op = "map_aligned"}
UnmapAlignedCalls == {k \in DOMAIN mlog : mlog[k].op = "unmap_aligned"}
FloorTo(x, P) == x - (x % P)
CeilTo(x, P) == IF x % P = 0 THEN x ELSE x + P - (x % P)

\* C14: map(phys, size) with page size P calls map_aligned once, with
\* (floor(phys/P)*P, ceil((phys mod P + size)/P)*P); when that succeeds with
\* aligned_virt it returns aligned_virt + (phys mod P), and when it fails it
\* returns the same error.  (phys + size + P stays within usize, P >= 1.)
C14_MapAligned ==
    /\ Cardinality(MapAlignedCalls) <= 1
    /\ Len(mret) >= 1 =>
          LET P == page_size
              c == mlog[1]
          IN /\ Cardinality(MapAlignedCalls) = 1
             /\ c.op = "map_aligned"
             /\ c.address = FloorTo(marg.address, P)
             /\ c.size = CeilTo((marg.address % P) + marg.size, P)
             /\ c.ret.ok => mret[1] = Ok(c.ret.val + (marg.address % P))
             /\ ~c.ret.ok => mret[1] = c.ret

\* a page-sized region one byte into a page has been mapped: two pages
C14_Witness ==
    /\ Len(mret) = 1 /\ page_size = 4096
    /\ marg = [address |-> 4097, size |-> 4096]
    /\ mlog[1].address = 4096 /\ mlog[1].size = 8192
    /\ mret[1] = Ok(4096 * 16 + 1)


\* --- len()

\* v mod 8 of a register value
Low3(v) == (IF 0 \in v THEN 1 ELSE 0) + (IF 1 \in v THEN 2 ELSE 0)
           + (IF 2 \in v THEN 4 ELSE 0)

\* C11: len() writes FDOC = 1 << 12 (section Component, index 0) and then
\* reads FDOD, nothing else; for the value v it read it returns
\* Ok(512 KiB * 2^(v mod 8)), and it never returns an error.
C11_Len ==
    call.kind = "len" =>
        /\ pc = "fdoc" => trace = <<>>
        /\ pc = "fdod" => trace = <<WrEv("FDOC", 0, {12})>>
        /\ pc = "returned" =>
              /\ trace = <<WrEv("FDOC", 0, {12}),
                           RdEv("FDOD", 0, descriptor[{12}])>>
              /\ result = Ok(512 * 1024 * Pow2(Low3(descriptor[{12}])))
        /\ result \in {None} \cup {Ok(512 * 1024 * Pow2(c)) : c \in 0..7}

\* len() has returned 4 MiB for a dword that ends in 0b011 with bit 31 set
C11_Witness ==
    /\ call.kind = "len" /\ pc = "returned"
    /\ descriptor[{12}] = {0, 1, 31}
    /\ result = Ok(4194304)


\* --- the life of a SpiDev

\* what the configuration space holds
CfgVendor == pcie_space[0] + 256 * pcie_space[1]
CfgProduct == pcie_space[2] + 256 * pcie_space[3]
CfgBar0 == pcie_space[16] + 256 * pcie_space[17] + 65536 * pcie_space[18]
           + 16777216 * pcie_space[19]
Listed == <<CfgVendor, CfgProduct>> \in {PCI_IDS[k] : k \in DOMAIN PCI_IDS}
\* new() has returned
NewReturned == dpc \in {"failed", "ready", "dropped"}
\* the first call of the host is the mapping of the configuration-space page
CfgMapped == dpc # "off" /\ Len(mlog) >= 1 /\ mlog[1].ret.ok
\* the unmap calls for that page
CfgUnmaps == {k \in UnmapAlignedCalls :
                 mlog[k].of = [address |-> mlog[1].ret.val + (mlog[1].of.address % page_size),
                               size |-> 4096]}
\* the calls that still have pages mapped
Outstanding == {m.call : m \in maps}

\* C15: in SpiDev::new, once the configuration-space page is mapped, unmap is
\* called for it exactly once before new returns (it is the very next call of
\* the host), for a listed device and for any other; for a device that is not
\* listed new returns an error without mapping anything else, and nothing is
\* left mapped (but a page the host failed to unmap).
C15_CfgUnmapped ==
    CfgMapped =>
        /\ Cardinality(CfgUnmaps) <= 1
        /\ dpc \in {"new", "probe", "unmap_cfg"} => CfgUnmaps = {}
        /\ dpc \notin {"new", "probe", "unmap_cfg"} =>
              /\ CfgUnmaps = {2}
              /\ mlog[2].address = mlog[1].ret.val /\ mlog[2].size = mlog[1].size
        /\ (NewReturned /\ ~Listed) =>
              /\ dpc = "failed" /\ ~dev.ok
              /\ MapAlignedCalls = {1}
              /\ mlog[2].ret.ok => (maps = {} /\ dev = Err("no supported SPI device found"))
              /\ ~mlog[2].ret.ok => dev = mlog[2].ret

\* new() has failed for another vendor's device, its page unmapped, with pages
\* of 16 KiB (the page of the device begins 4 KiB into one)
C15_Witness ==
    /\ dpc = "failed" /\ CfgMapped /\ ~Listed
    /\ dev = Err("no supported SPI device found")
    /\ page_size = 16384 /\ pcie_virt % page_size = 4096
    /\ Len(mlog) = 2 /\ maps = {}

\* C16: SpiDev::new asks for the mapping of the register block only for a
\* device whose (vendor, product) is in PCI_IDS and only after the unmap of
\* the configuration-space page has succeeded, so that pages of at most one
\* mapping are held at any time; it maps sizeof(SpiRegs) = 216 bytes at the
\* physical address that is the little-endian value of bytes 0x10..0x13; and
\* BAR0 is read for a listed device only.
C16_RegsMapping ==
    dpc # "off" =>
        /\ \A k \in MapAlignedCalls : k > 1 =>
              /\ Listed
              /\ k = 3
              /\ mlog[2].op = "unmap_aligned" /\ mlog[2].ret.ok /\ 2 \in CfgUnmaps
              /\ mlog[k].of = [address |-> CfgBar0, size |-> 216]
              /\ mlog[k].address = FloorTo(CfgBar0, page_size)
              /\ mlog[k].size = CeilTo((CfgBar0 % page_size) + 216, page_size)
        /\ Cardinality(Outstanding) <= 1
        /\ cfg_reads \cap {16, 17, 18, 19} # {} => Listed
        /\ (Listed /\ CfgMapped /\ dpc \notin {"new", "probe"}) =>
              cfg_reads = {0, 1, 2, 3, 16, 17, 18, 19}
        /\ dpc \in {"ready", "dropped"} =>
              /\ 3 \in MapAlignedCalls /\ mlog[3].ret.ok
              /\ regs = mlog[3].ret.val + (CfgBar0 % page_size)
              /\ dev = Ok(regs)

\* new() has succeeded for Cannon Lake-H with a block that spans two pages
C16_Witness ==
    /\ dpc = "ready" /\ CfgProduct = 41764
    /\ page_size = 4096 /\ CfgBar0 % 4096 = 3968
    /\ mlog[3].size = 8192 /\ Outstanding = {3}

\* C17: from a successful new to the drop, whatever calls of len, read,
\* erase and write are made, no unmap is issued for the register block while
\* the device lives; drop issues exactly one, for the region new mapped, and
\* ends well even when the host fails it; and every unmap ever issued is for
\* a region mapped by the call of the host just before it (none twice).
C17_UnmapOnce ==
    dpc # "off" =>
        /\ dpc = "ready" =>
              /\ Len(mlog) = 3
              /\ maps # {} /\ Outstanding = {3}
        /\ dpc = "dropped" =>
              /\ Len(mlog) = 4
              /\ mlog[4].op = "unmap_aligned"
              /\ mlog[4].of = [address |-> regs, size |-> 216]
              /\ mlog[4].address = mlog[3].ret.val /\ mlog[4].size = mlog[3].size
              /\ mlog[4].ret.ok => maps = {}
              /\ dev = Ok(regs)
        /\ \A k \in UnmapAlignedCalls :
              /\ k > 1 /\ mlog[k - 1].op = "map_aligned" /\ mlog[k - 1].ret.ok
              /\ mlog[k].address = mlog[k - 1].ret.val
              /\ mlog[k].size = mlog[k - 1].size
        /\ dpc \notin {"ready", "dropped"} => calls = <<>>

\* a device has been dropped after an erase and a len, and the host failed
\* the unmap
C17_Witness ==
    /\ dpc = "dropped" /\ Len(calls) = 2
    /\ calls[1].kind = "erase" /\ calls[2].kind = "len"
    /\ ~mlog[4].ret.ok /\ maps # {}


\* --- the size check and the errors of the flash replacement procedure

\* C18: when the length of the new image differs from the capacity len()
\* reported, the procedure stops at the size check: it has made the one call
\* of len and no cycle of any kind, so no BlockErase and no Write, has been
\* started; it goes on to read only when the two are equal.
C18_SizeChecked ==
    /\ mpc \notin {"len", "len_wait"} =>
          len = FlashSize * Pow2(Low3(descriptor[{12}]))
    /\ (mpc \notin {"len", "len_wait"} /\ len # Len(new)) =>
          /\ mpc = "size_invalid"
          /\ cycles = <<>>
          /\ Len(calls) = 1 /\ calls[1].kind = "len"
          /\ flash0 = <<>> /\ data = <<>>
    /\ mpc = "size_invalid" => len # Len(new)

\* the file has the size of a 512 KiB part and the device reports 1 MiB
C18_Witness ==
    /\ mpc = "size_invalid"
    /\ Len(new) = FlashSize /\ len = 2 * FlashSize
    /\ cycles = <<>>

\* C19: when a read, an erase or a write has returned an error, the only
\* step the procedure takes is to abort, without a new call or cycle and
\* with the flash as it is; and after the abort nothing happens at all, so
\* no later sector is touched and the verify stage is not entered.
C19_AbortOnError ==
    [][ /\ (pc = "returned" /\ ~result.ok) =>
              /\ mpc \in {"read_wait", "erase_wait", "write_wait", "verify_wait"}
              /\ mpc' = "abort"
              /\ calls' = calls /\ cycles' = cycles /\ flash' = flash
        /\ mpc # "abort"
        /\ mpc' = "abort" => (pc = "returned" /\ ~result.ok)
      ]_vars

\* the procedure has aborted on the write of the first sector, with the
\* second sector still to be replaced
C19_Witness ==
    /\ mpc = "abort" /\ Walking
    /\ calls[Len(calls)].kind = "write" /\ calls[Len(calls)].address = 0
    /\ result = Err("Cycle")
    /\ ~SectorSame(1) /\ WalkCalls(1) = <<>>

\* --- the polling loops

\* C20: a call leaves wait-idle only by a status read that shows H_SCIP = 0,
\* and leaves poll-complete only by a status read that shows FCERR or FDONE,
\* the cycle being over; no call returns or starts its next chunk while a
\* cycle runs.  If the controller ends the transactions of others and ends
\* every cycle started, every call that has been made returns.
C20_NoTimeout ==
    /\ [][ /\ (pc = "wait_idle" /\ pc' # "wait_idle") =>
                 /\ ~contains(hsfsts_ctl_reg, H_SCIP)
                 /\ hsfsts_ctl' = from_bits_truncate(hsfsts_ctl_reg)
                 /\ pc' = "sanitize"
           /\ (pc = "poll" /\ pc' # "poll") =>
                 /\ contains(hsfsts_ctl_reg, FCERR) \/ contains(hsfsts_ctl_reg, FDONE)
                 /\ hsfsts_ctl' = from_bits_truncate(hsfsts_ctl_reg)
                 /\ ~hw_cycle
         ]_vars
    /\ [](hw_cycle => pc = "poll")
    /\ (pc \notin {"idle", "returned"}) ~> (pc = "returned")

\* a write is in poll-complete for its second chunk, and the status it has
\* just read shows the cycle still running
C20_Witness ==
    /\ call.kind = "write" /\ pc = "poll" /\ cnt = 64
    /\ hw_cycle /\ contains(hsfsts_ctl, H_SCIP)
    /\ ~contains(hsfsts_ctl, FDONE) /\ ~contains(hsfsts_ctl, FCERR)

\* --- the Access Error Log

\* C21 (as claimed): a read, an erase or a write whose cycle completes with
\* H_AEL set in the status the call observed fails with SpiError::Access.
C21_Claim ==
    (pc = "returned" /\ call.kind \in {"read", "erase", "write"}
        /\ Cardinality(GoIdx) > 0 /\ contains(LastStatus, H_AEL))
    => result = Err("Access")

\* --- the register overlay

\* C22: the fields of SpiRegs are consecutive 4-byte cells in the order they
\* are declared, with no padding: BFPREG is at 0x00, HSFSTS_CTL at 0x04,
\* FDATA[0] at 0x10, FREG[0] at 0x54, FPR[0] at 0x84, GPR at 0x98, SFRACC at
\* 0xB0, FDOC at 0xB4, FDOD at 0xB8, AFC at 0xC0 and SBRS at 0xD4; and every
\* register access of a call is made at the offset of its register.
C22_Offsets ==
    /\ offset_of("bfpreg") = 0
    /\ offset_of("hsfsts_ctl") = 4
    /\ offset_of("fdata") = 16
    /\ offset_of("freg") = 84
    /\ offset_of("fpr") = 132
    /\ offset_of("gpr") = 152
    /\ offset_of("sfracc") = 176
    /\ offset_of("fdoc") = 180
    /\ offset_of("fdod") = 184
    /\ offset_of("afc") = 192
    /\ offset_of("sbrs") = 212
    /\ \A k \in 1..(Len(SpiRegsFields) - 1) :
          offset_of(SpiRegsFields[k + 1][1]) =
             offset_of(SpiRegsFields[k][1]) + 4 * SpiRegsFields[k][2]
    /\ \A k \in Idx :
          trace[k].off = 4 * trace[k].ix +
             (CASE trace[k].reg = "HSFSTS_CTL" -> 4
                [] trace[k].reg = "FADDR" -> 8
                [] trace[k].reg = "FDATA" -> 16
                [] trace[k].reg = "FDOC" -> 180
                [] trace[k].reg = "FDOD" -> 184)

\* a write has filled the last data register, FDATA[15] at 0x4C, and started
\* its cycle
C22_Witness ==
    /\ call.kind = "write" /\ pc = "poll"
    /\ \E k \in Idx : trace[k].reg = "FDATA" /\ trace[k].ix = 15 /\ trace[k].off = 76
    /\ trace[Len(trace)].reg = "HSFSTS_CTL" /\ trace[Len(trace)].off = 4

\* --- stale status bits

\* the first HSFSTS_CTL write after position r of the history, 0 if none
NextCtlWr(r) ==
    LET after == {k \in Idx : k > r /\ IsCtlWr(trace[k])}
    IN IF after = {} THEN 0 ELSE CHOOSE k \in after : \A x \in after : k <= x

\* C23: with FDONE, FCERR and H_AEL write-1-to-clear, no FDONE or FCERR is
\* set while a cycle started by FGO runs, so poll-complete leaves only on a
\* bit that cycle raised; the status bits of every status read are written
\* back as 1 by the next HSFSTS_CTL write of the call (the sanitize write
\* after wait-idle, the sanitize write after poll-complete), and when read,
\* erase or write has returned, every FDONE and FCERR it read has been
\* written back and, if it read the status at all, the register shows
\* neither.
C23_StaleStatus ==
    /\ hw_cycle => (pc = "poll" /\ hsfsts_ctl_reg \cap (FDONE \cup FCERR) = {})
    /\ \A r \in Idx :
          (IsCtlRd(trace[r]) /\ NextCtlWr(r) > 0) =>
             (trace[r].val \cap HwW1C) \subseteq trace[NextCtlWr(r)].val
    /\ \A r \in Idx :
          (IsCtlRd(trace[r]) /\ pc \in {"faddr", "fill", "go", "poll", "returned"}) =>
             NextCtlWr(r) > 0
    /\ (pc = "returned" /\ call.kind \in {"read", "erase", "write"}
          /\ \E r \in Idx : IsCtlRd(trace[r])) =>
          hsfsts_ctl_reg \cap (FDONE \cup FCERR) = {}

\* a cycle runs with FDONE and FCERR clear in the register, although the
\* status read in wait-idle showed FCERR and H_AEL left by an earlier user
C23_Witness ==
    /\ pc = "poll" /\ hw_cycle
    /\ IsCtlRd(trace[1]) /\ contains(trace[1].val, FCERR \cup H_AEL)
    /\ hsfsts_ctl_reg \cap HwW1C = {}

\* --- the frame of write

\* C24 (as claimed): with a controller that programs FDBC + 1 bytes from FDATA
\* in a Write cycle, write(address, buf) changes no flash byte outside
\* [address, address + buf.len()), whatever the length of buf.
C24_Claim ==
    call.kind = "write" =>
        \A a \in 0..(FlashSize - 1) :
            (a < call.address \/ a >= call.address + BufLen) =>
                FlashByte(flash, a) = FlashByte(Ramp, a)

\* --- the frame of set_count

\* C25 (as claimed): for every HsfStsCtl value and every n in 0..255,
\* set_count(n) changes only the FDBC bits 29:24: every other bit, FSMIE
\* (bit 31) among them, is as before.
C25_Claim ==
    lastop.op = "set_count" =>
        /\ word \ FDBC = lastop.prev \ FDBC
        /\ contains(word, FSMIE) <=> contains(lastop.prev, FSMIE)

\* --- map, then unmap

\* C26: for every phys, size and page size P: unmap(map(phys, size), size)
\* calls unmap_aligned exactly once, and when map_aligned returned a
\* page-aligned virtual address, that call is made with the virtual address
\* map_aligned returned and the aligned size map_aligned was given; before
\* unmap is called no unmap_aligned is made.
C26_UnmapOfMap ==
    /\ Len(mret) < 2 => UnmapAlignedCalls = {}
    /\ Len(mret) = 2 =>
          /\ Cardinality(UnmapAlignedCalls) = 1
          /\ Cardinality(MapAlignedCalls) = 1
          /\ mlog[1].op = "map_aligned" /\ mlog[1].ret.ok
          /\ mlog[2].op = "unmap_aligned"
          /\ mlog[2].of = [address |-> mret[1].val, size |-> marg.size]
          /\ mlog[1].ret.val % page_size = 0 =>
                /\ mlog[2].address = mlog[1].ret.val
                /\ mlog[2].size = mlog[1].size

\* 216 bytes that end 10 bytes into the next page were mapped at page 16
\* and unmapped again: two pages at 0x10000
C26_Witness ==
    /\ Len(mret) = 2 /\ page_size = 4096
    /\ marg = [address |-> 8190, size |-> 216]
    /\ mret[1] = Ok(65536 + 4094)
    /\ mlog[2].address = 65536 /\ mlog[2].size = 8192
    /\ mlog[1].size = 8192

\* --- a call that fails part of the way

\* the status reads of the history that left poll-complete showing FCERR
ErrReads ==
    {r \in Idx : /\ IsCtlRd(trace[r]) /\ PrevGo(r) > 0 /\ 1 \in trace[r].val
                 /\ \A x \in (PrevGo(r) + 1)..(r - 1) : ~IsCtlRd(trace[x])}

\* C27: when a read or a write fails with Cycle in chunk k (counted from 0),
\* no cycle is started and no data register touched after the status read
\* that showed the error: the call has started exactly the k + 1 cycles of
\* chunks 0 .. k; and for read, the bytes of the buffer from offset 64 k on
\* are as the caller passed them, while the first 64 k bytes are the flash
\* bytes the cycles of the k earlier chunks read.
C27_PartialFailure ==
    call.kind \in {"read", "write"} =>
        /\ \A r \in ErrReads : \A x \in Idx :
              x > r => (~IsGo(trace[x]) /\ trace[x].reg # "FDATA")
        /\ (pc = "returned" /\ result = Err("Cycle")) =>
              /\ ErrReads # {}
              /\ cnt % 64 = 0 /\ cnt < BufLen
              /\ Len(MyCycles) = (cnt \div 64) + 1
              /\ Cardinality(GoIdx) = (cnt \div 64) + 1
              /\ \A c \in 1..Len(MyCycles) :
                    MyCycles[c].addr = call.address + 64 * (c - 1)
              /\ call.kind = "read" =>
                    /\ Len(buf) = BufLen
                    /\ \A j \in 1..BufLen :
                          buf[j] = IF j <= cnt
                                   THEN FlashByte(flash, call.address + j - 1)
                                   ELSE ReadBuf(BufLen)[j]

\* a read of 130 bytes at 0x20 has failed in its second chunk: the first 64
\* bytes hold the flash data, the other 66 are untouched
C27_Witness ==
    /\ call.kind = "read" /\ pc = "returned" /\ result = Err("Cycle")
    /\ BufLen = 130 /\ call.address = 32 /\ cnt = 64
    /\ Len(MyCycles) = 2
    /\ buf[64] = 95 /\ buf[65] = 90 /\ buf[130] = 90

====
